---- MODULE Spec2Model ----
(***************************************************************************)
(* Trading client (MT5Manager + TradingApp): connection lifecycle with     *)
(* bounded retry, the connect-thread bookkeeping of the main window, order *)
(* submission and bulk close, the auto-trade lock, and lot sizing.         *)
(***************************************************************************)
EXTENDS Integers, Sequences, FiniteSets, TLC

\* ------------------------------------------------------------------ bounds
MaxRetries == 3      \* largest configured mt5_retries explored
MaxThreads == 2      \* MT5ConnectThread objects that may be alive at once
MaxErrCode == 1      \* distinct venue error codes returned by mt5.last_error()
MaxPositions == 2    \* open positions carrying the managed magic number
MaxAutoCallers == 2  \* concurrent calls of auto_execute_model_signal_if_conditions_met

Threads == 1..MaxThreads
ErrCodes == 1..MaxErrCode
NoThread == 0
Tickets == 1..MaxPositions
AutoCallers == 1..MaxAutoCallers
Manual == 0                       \* the caller behind the buy/sell buttons
Executors == {Manual} \cup AutoCallers
NoHolder == -1

\* last_raw_error_message values: <<kind, detail>>
NoError == <<"", 0>>
NotConfigured == <<"not_configured", 0>>
UnknownReason == <<"unknown_after_retries", 0>>
ConfigError == <<"config_error_login_not_number", 0>>
NotConnectedError == <<"not_connected", 0>>

LoginKinds == {"numeric", "malformed", "missing"}

VARIABLES
    login,                   \* MT5Manager.login as loaded from the settings
    retries,                 \* MT5Manager.retries
    connected,               \* MT5Manager.connected
    last_raw_error_message,  \* MT5Manager.last_raw_error_message
    last_failed_reason,      \* history: the reason captured by the latest failed attempt
    thread,                  \* MT5ConnectThread objects: [pc, attempt, inits, slept, result]
    mt5_connect_thread,      \* TradingApp.mt5_connect_thread (NoThread = None)
    exec,                    \* calls of execute_trade_from_signal_data in progress:
                             \* [pc, ok, note, validated, sends]
    closer,                  \* the call of close_all_trades: [pc, todo, closed_count, failed_count, attempted, result]
    positions,               \* tickets of the venue's open positions with the managed magic
    last_order_send,         \* the last mt5.order_send issued: who issued it, and `connected` then
    AUTO_TRADE_LOCK,         \* holder of the module-level Lock (NoHolder = unlocked)
    lot_in,                  \* arguments and venue data of one calculate_lot_size_advanced call
    lot_out,                 \* its return value in volume units (NotComputed before the call)
    time_in,                 \* settings and clock of one is_trading_time_allowed call
    time_out,                \* its return value, <<>> before the call
    attempt,                 \* the last call of execute_trade_from_signal_data taken as a whole:
                             \* its inputs, the checks it evaluated and what it returned
    now,                     \* datetime.now(timezone.utc), in ticks
    last_trade_time,         \* TradingApp.last_trade_time, Never for a symbol not in the dict
    df_signals,              \* TradingApp.df_signals: for each symbol the row of its signal
                             \* (one signal time, readable by pd.to_datetime), if any
    merge_in,                \* on_signals_loaded_processed: the CSV rows followed by the new
                             \* model signals, as concatenated at line 1596
    merge_out,               \* <<the rows assigned to df_signals at line 1617>>, <<>> before
                             \* the call
    market,                  \* for each ticket the position's type and open price, and what
                             \* get_symbol_info and get_tick return for its symbol
    monitor,                 \* the last call of monitor_positions_for_auto_close: the
                             \* settings it read, the positions it got and what it did
    spread_in,               \* step 8 of execute_trade_from_signal_data: the spreads of the
                             \* venue and of the signal, the symbol's class and the ceilings
    spread_out,              \* <<what step 8 used and decided>>, <<>> before it
    auto_orders,             \* history: for each symbol the automatic orders executed for
                             \* the signal of the current candle
    refresh                  \* the last run of on_signals_loaded_processed: the symbol of
                             \* the new model signal and what the automatic path did

connVars == <<login, retries, connected, last_raw_error_message, last_failed_reason,
              thread, mt5_connect_thread>>

\* A thread object that does not exist (never created, or finished and reaped).
NoThreadRec == [pc |-> "none", attempt |-> 0, inits |-> 0, slept |-> 0, result |-> FALSE]

\* QThread.isRunning(): run() has been entered and has not returned.
isRunning(t) == thread[t].pc \in {"start", "loop", "exhausted", "returned"}

\* The thread is inside MT5Manager.connect().
InConnect(t) == thread[t].pc \in {"start", "loop", "exhausted"}

is_connected == connected

ordVars == <<exec, closer, positions, last_order_send>>
vars == <<login, retries, connected, last_raw_error_message, last_failed_reason,
          thread, mt5_connect_thread,
          exec, closer, positions, last_order_send, AUTO_TRADE_LOCK, lot_in, lot_out,
          time_in, time_out, attempt, now, last_trade_time, df_signals,
          merge_in, merge_out, market, monitor, spread_in, spread_out,
          auto_orders, refresh>>
\* The state of the calls modelled one at a time, outside the managers.
execVars == <<attempt, now, last_trade_time, df_signals>>
mergeVars == <<merge_in, merge_out>>
spreadVars == <<spread_in, spread_out>>
refreshVars == <<auto_orders, refresh>>
sideVars == <<market, monitor, spreadVars, refreshVars>>
restVars == <<time_in, time_out, execVars, mergeVars, sideVars>>
\* What the actions of each part leave alone.
orderFrame == <<login, retries, connected, last_failed_reason, thread, mt5_connect_thread,
                lot_in, lot_out, restVars>>
connFrame == <<exec, closer, positions, last_order_send, AUTO_TRADE_LOCK, lot_in, lot_out,
               restVars>>
managerVars == <<login, retries, connected, last_raw_error_message, last_failed_reason,
                 thread, mt5_connect_thread,
                 exec, closer, positions, last_order_send, AUTO_TRADE_LOCK>>
lotFrame == <<managerVars, restVars>>

\* validated: the outcome of mt5.order_check in this call; sends: the number
\* of mt5.order_send calls it has made.
IdleExec == [pc |-> "idle", ok |-> FALSE, note |-> "none", validated |-> "none", sends |-> 0]
\* fetched: positions_to_close as fetched; handled: the tickets the loop has
\* been through, in order.
IdleCloser == [pc |-> "idle", todo |-> <<>>, closed_count |-> 0, failed_count |-> 0,
               attempted |-> 0, result |-> "none", fetched |-> <<>>, handled |-> <<>>]
NoOrderSend == [by |-> "none", connected |-> TRUE]

\* ------------------------------------------------- MT5Manager.connect()
Returned(t, ok) == [thread[t] EXCEPT !.pc = "returned", !.result = ok]

\* A connect() without the shortcut of lines 53-55: it reloads the config and
\* runs the retry loop even when the manager is connected.
ConnectEntryNoShortcut(t) ==
    /\ thread[t].pc = "start"
    /\ IF login = "missing"
       THEN /\ last_raw_error_message' = NotConfigured
            /\ thread' = [thread EXCEPT ![t] = Returned(t, FALSE)]
       ELSE /\ last_raw_error_message' = NoError
            /\ thread' = [thread EXCEPT ![t].pc =
                              IF retries = 0 THEN "exhausted" ELSE "loop"]
    /\ last_failed_reason' = NoError
    /\ UNCHANGED <<connected, login, retries, mt5_connect_thread>>
    /\ UNCHANGED connFrame

\* Lines 51-65: the already-connected shortcut, the config reload, the reset
\* of the retained error and the check for missing connection details.
ConnectEntry(t) ==
    /\ thread[t].pc = "start"
    /\ IF connected
       THEN /\ thread' = [thread EXCEPT ![t] = Returned(t, TRUE)]
            /\ UNCHANGED <<connected, last_raw_error_message>>
       ELSE IF login = "missing"
       THEN /\ last_raw_error_message' = NotConfigured
            /\ thread' = [thread EXCEPT ![t] = Returned(t, FALSE)]
            /\ UNCHANGED connected
       ELSE /\ last_raw_error_message' = NoError
            /\ thread' = [thread EXCEPT ![t].pc =
                              IF retries = 0 THEN "exhausted" ELSE "loop"]
            /\ UNCHANGED connected
    /\ last_failed_reason' = IF connected THEN last_failed_reason ELSE NoError
    /\ UNCHANGED <<login, retries, mt5_connect_thread>>
    /\ UNCHANGED connFrame

\* A failed iteration that gives up the remaining retry budget.
FailedAttemptGiveUp(t, reason, calledInit) ==
    /\ last_raw_error_message' = reason
    /\ last_failed_reason' = reason
    /\ thread' = [thread EXCEPT
          ![t].attempt = @ + 1,
          ![t].inits = IF calledInit THEN @ + 1 ELSE @,
          ![t].pc = "exhausted"]
    /\ UNCHANGED connected

\* What one failed iteration of the retry loop leaves behind: the captured
\* reason, the retry delay (only when another attempt follows) and the move
\* to the next iteration or out of the loop.
FailedAttempt(t, reason, calledInit) ==
    /\ last_raw_error_message' = reason
    /\ last_failed_reason' = reason
    /\ thread' = [thread EXCEPT
          ![t].attempt = @ + 1,
          ![t].inits = IF calledInit THEN @ + 1 ELSE @,
          ![t].slept = IF thread[t].attempt < retries - 1 THEN @ + 1 ELSE @,
          ![t].pc = IF thread[t].attempt + 1 >= retries THEN "exhausted" ELSE "loop"]
    /\ UNCHANGED connected

\* An iteration that treats the ValueError of int(self.login) like the other
\* exceptions (lines 98-105): recorded, delayed and retried.
ConnectAttemptRetryConfig(t) ==
    /\ thread[t].pc = "loop"
    /\ thread[t].attempt < retries
    /\ IF login = "malformed"
       THEN FailedAttempt(t, ConfigError, FALSE)
       ELSE \/ \E c \in ErrCodes : FailedAttempt(t, <<"initialize_failed", c>>, TRUE)
            \/ \E c \in ErrCodes : FailedAttempt(t, <<"account_info_failed", c>>, TRUE)
            \/ FailedAttempt(t, <<"exception", thread[t].attempt + 1>>, TRUE)
            \/ /\ connected' = TRUE
               /\ last_raw_error_message' = NoError
               /\ thread' = [thread EXCEPT ![t] =
                     [Returned(t, TRUE) EXCEPT !.attempt = @ + 1, !.inits = @ + 1]]
               /\ UNCHANGED last_failed_reason
    /\ UNCHANGED <<login, retries, mt5_connect_thread>>
    /\ UNCHANGED connFrame

\* Lines 66-105: one iteration of `for attempt in range(self.retries)`.
ConnectAttempt(t) ==
    /\ thread[t].pc = "loop"
    /\ thread[t].attempt < retries
    /\ IF login = "malformed"
       THEN \* int(self.login) raises ValueError before mt5.initialize is called
            /\ last_raw_error_message' = ConfigError
            /\ last_failed_reason' = ConfigError
            /\ thread' = [thread EXCEPT ![t] = [Returned(t, FALSE) EXCEPT !.attempt = @ + 1]]
            /\ UNCHANGED connected
       ELSE \/ \E c \in ErrCodes :      \* mt5.initialize() returns False
                 FailedAttempt(t, <<"initialize_failed", c>>, TRUE)
            \/ \E c \in ErrCodes :      \* initialize ok, account_info() is None
                 FailedAttempt(t, <<"account_info_failed", c>>, TRUE)
            \/ \* any other exception; the message carries the attempt number
               FailedAttempt(t, <<"exception", thread[t].attempt + 1>>, TRUE)
            \/ \* initialize ok and account_info() returned the snapshot
               /\ connected' = TRUE
               /\ last_raw_error_message' = NoError
               /\ thread' = [thread EXCEPT ![t] =
                     [Returned(t, TRUE) EXCEPT !.attempt = @ + 1, !.inits = @ + 1]]
               /\ UNCHANGED last_failed_reason
    /\ UNCHANGED <<login, retries, mt5_connect_thread>>
    /\ UNCHANGED connFrame

\* An exit of the loop that always reports the generic reason.
ConnectExhaustedGeneric(t) ==
    /\ thread[t].pc = "exhausted"
    /\ connected' = FALSE
    /\ last_raw_error_message' = UnknownReason
    /\ thread' = [thread EXCEPT ![t] = Returned(t, FALSE)]
    /\ UNCHANGED <<login, retries, last_failed_reason, mt5_connect_thread>>
    /\ UNCHANGED connFrame

\* Lines 107-111: the loop ran out of attempts.
ConnectExhausted(t) ==
    /\ thread[t].pc = "exhausted"
    /\ connected' = FALSE
    /\ last_raw_error_message' =
          IF last_raw_error_message = NoError THEN UnknownReason
          ELSE last_raw_error_message
    /\ thread' = [thread EXCEPT ![t] = Returned(t, FALSE)]
    /\ UNCHANGED <<login, retries, last_failed_reason, mt5_connect_thread>>
    /\ UNCHANGED connFrame

\* MT5ConnectThread.run() after connect() returned: the result is emitted and
\* run() returns, which ends isRunning() and queues the `finished` signal; the
\* locals of the connect() call are gone.
ThreadFinish(t) ==
    /\ thread[t].pc = "returned"
    /\ thread' = [thread EXCEPT ![t] = [NoThreadRec EXCEPT !.pc = "finished"]]
    /\ UNCHANGED <<login, retries, connected, last_raw_error_message, last_failed_reason,
                   mt5_connect_thread>>
    /\ UNCHANGED connFrame

\* ------------------------------------------------- MT5Manager.disconnect()
disconnect ==
    /\ connected' = FALSE
    /\ UNCHANGED <<login, retries, last_raw_error_message, last_failed_reason>>

\* ---------------------------------------- TradingApp connection handlers
\* toggle_mt5_connection, the branch taken when the manager is not connected:
\* skip when a connect thread is running, else create and start one.
StartConnectThread ==
    IF mt5_connect_thread # NoThread /\ isRunning(mt5_connect_thread)
    THEN UNCHANGED <<thread, mt5_connect_thread>>
    ELSE \E t \in Threads :
            /\ thread[t].pc = "none"
            /\ \A u \in Threads : thread[u].pc = "none" => t <= u
            /\ thread' = [thread EXCEPT ![t] = [NoThreadRec EXCEPT !.pc = "start"]]
            /\ mt5_connect_thread' = t

toggle_mt5_connection ==
    /\ IF is_connected
       THEN disconnect /\ UNCHANGED <<thread, mt5_connect_thread>>
       ELSE /\ StartConnectThread
            /\ UNCHANGED <<login, retries, connected, last_raw_error_message,
                           last_failed_reason>>
    /\ UNCHANGED connFrame

\* show_settings_dialog accepted: disconnect when connected, then toggle.
show_settings_dialog ==
    /\ disconnect
    /\ StartConnectThread
    /\ UNCHANGED connFrame

\* Slot of QThread.finished, run on the main thread when the queued signal of
\* a finished thread is delivered.
OnMt5ThreadFinished(t) ==
    /\ thread[t].pc = "finished"
    /\ thread' = [thread EXCEPT ![t] = NoThreadRec]
    /\ mt5_connect_thread' = NoThread
    /\ UNCHANGED <<login, retries, connected, last_raw_error_message, last_failed_reason>>
    /\ UNCHANGED connFrame


\* ------------------------------------------------- MT5Manager.send_order()
\* A send_order call that returns (False, message).
SendReturnsFalse(e, reason, rec) ==
    /\ last_raw_error_message' = reason
    /\ exec' = [exec EXCEPT ![e] = [rec EXCEPT !.pc = "result", !.ok = FALSE]]

SendFailed(e, reason) == SendReturnsFalse(e, reason, exec[e])

\* Lines 250-253: the connection test on entry.
SendOrderEntry(e) ==
    /\ exec[e].pc = "send_order"
    /\ IF ~is_connected
       THEN SendFailed(e, NotConnectedError)
       ELSE /\ exec' = [exec EXCEPT ![e].pc = "tick"]
            /\ UNCHANGED last_raw_error_message
    /\ UNCHANGED <<closer, positions, last_order_send, AUTO_TRADE_LOCK>>
    /\ UNCHANGED orderFrame

\* Lines 255-275: the fresh tick and the market price taken from it.
SendOrderTick(e) ==
    /\ exec[e].pc = "tick"
    /\ \/ SendFailed(e, <<"tick_failed", 0>>)
       \/ SendFailed(e, <<"invalid_price", 0>>)
       \/ /\ exec' = [exec EXCEPT ![e].pc = "order_check"]
          /\ UNCHANGED last_raw_error_message
    /\ UNCHANGED <<closer, positions, last_order_send, AUTO_TRADE_LOCK>>
    /\ UNCHANGED orderFrame

\* A validation that lets a request through whatever mt5.order_check said.
SendOrderCheckLenient(e) ==
    /\ exec[e].pc = "order_check"
    /\ \E verdict \in {"absent", "rejected", "done"} :
          exec' = [exec EXCEPT ![e].pc = "order_send", ![e].validated = verdict]
    /\ UNCHANGED <<last_raw_error_message, closer, positions, last_order_send, AUTO_TRADE_LOCK>>
    /\ UNCHANGED orderFrame

\* Lines 277-297: the request is built and validated with mt5.order_check.
SendOrderCheck(e) ==
    /\ exec[e].pc = "order_check"
    /\ \/ \E c \in ErrCodes :
             SendReturnsFalse(e, <<"order_check_none", c>>,
                              [exec[e] EXCEPT !.validated = "absent"])
       \/ \E c \in ErrCodes :
             SendReturnsFalse(e, <<"order_check_rejected", c>>,
                              [exec[e] EXCEPT !.validated = "rejected"])
       \/ /\ exec' = [exec EXCEPT ![e].pc = "order_send", ![e].validated = "done"]
          /\ UNCHANGED last_raw_error_message
    /\ UNCHANGED <<closer, positions, last_order_send, AUTO_TRADE_LOCK>>
    /\ UNCHANGED orderFrame

MinOf(S) == CHOOSE x \in S : \A y \in S : x <= y

\* Lines 299-313: mt5.order_send and the reading of its result code.
SendOrderSend(e) ==
    /\ exec[e].pc = "order_send"
    /\ last_order_send' = [by |-> "send_order", connected |-> connected]
    /\ LET sent == [exec[e] EXCEPT !.sends = @ + 1] IN
       \/ \E c \in ErrCodes :
             SendReturnsFalse(e, <<"order_send_none", c>>, sent) /\ UNCHANGED positions
       \/ \E c \in ErrCodes :
             SendReturnsFalse(e, <<"order_send_rejected", c>>, sent) /\ UNCHANGED positions
       \/ \* TRADE_RETCODE_DONE or TRADE_RETCODE_PLACED
          /\ last_raw_error_message' = NoError
          /\ exec' = [exec EXCEPT ![e] = [sent EXCEPT !.pc = "result", !.ok = TRUE]]
          /\ UNCHANGED positions
    /\ UNCHANGED <<closer, AUTO_TRADE_LOCK>>
    /\ UNCHANGED orderFrame


\* ------------------------------------------- MT5Manager.close_all_trades()
\* Lines 340-343: the connection test on entry.
CloseAllEntry ==
    /\ closer.pc = "idle"
    /\ IF ~is_connected
       THEN /\ last_raw_error_message' = NotConnectedError
            /\ closer' = [IdleCloser EXCEPT !.result = "failed"]
       ELSE /\ closer' = [IdleCloser EXCEPT !.pc = "fetch"]
            /\ UNCHANGED last_raw_error_message
    /\ UNCHANGED <<exec, positions, last_order_send, AUTO_TRADE_LOCK>>
    /\ UNCHANGED orderFrame

RECURSIVE SortedSeq(_)
SortedSeq(S) == IF S = {} THEN <<>> ELSE <<MinOf(S)>> \o SortedSeq(S \ {MinOf(S)})

\* get_open_positions (lines 315-335): [] when not connected or when
\* positions_get fails, else the positions with the magic number.
get_open_positions(venueOk) ==
    IF is_connected /\ venueOk THEN SortedSeq(positions) ELSE <<>>

\* Lines 350-356: the position list is fetched once; an empty list returns
\* (True, "No open positions found to close").
CloseAllFetch ==
    /\ closer.pc = "fetch"
    /\ \E venueOk \in BOOLEAN :
          LET todo == get_open_positions(venueOk) IN
          closer' = IF todo = <<>>
                    THEN [IdleCloser EXCEPT !.result = "ok"]
                    ELSE [closer EXCEPT !.pc = "loop", !.todo = todo, !.fetched = todo]
    /\ UNCHANGED <<last_raw_error_message, exec, positions, last_order_send, AUTO_TRADE_LOCK>>
    /\ UNCHANGED orderFrame

\* The loop moves to the next position, or to the summary after the last.
NextPosition(c) ==
    [c EXCEPT !.todo = Tail(@), !.attempted = @ + 1, !.handled = Append(@, Head(c.todo)),
              !.pc = IF Len(c.todo) = 1 THEN "summary" ELSE "loop"]

\* A loop that gives up at the first position it cannot close.
CloseAllPositionStopOnFailure ==
    /\ closer.pc = "loop"
    /\ \/ /\ closer' = [NextPosition([closer EXCEPT !.failed_count = @ + 1])
                             EXCEPT !.pc = "summary"]
          /\ UNCHANGED <<positions, last_order_send>>
       \/ /\ last_order_send' = [by |-> "close_all_trades", connected |-> connected]
          /\ closer' = NextPosition([closer EXCEPT !.closed_count = @ + 1])
          /\ positions' = positions \ {Head(closer.todo)}
    /\ UNCHANGED <<last_raw_error_message, exec, AUTO_TRADE_LOCK>>
    /\ UNCHANGED orderFrame

\* Lines 358-406: one iteration of `for position in positions_to_close`.
CloseAllPosition ==
    /\ closer.pc = "loop"
    /\ \/ \* no tick, or a non-positive close price: counted as failed, no order
          /\ closer' = NextPosition([closer EXCEPT !.failed_count = @ + 1])
          /\ UNCHANGED <<positions, last_order_send>>
       \/ \* order_send accepted with TRADE_RETCODE_DONE
          /\ last_order_send' = [by |-> "close_all_trades", connected |-> connected]
          /\ closer' = NextPosition([closer EXCEPT !.closed_count = @ + 1])
          /\ positions' = positions \ {Head(closer.todo)}
       \/ \* order_send returned None or another result code
          /\ last_order_send' = [by |-> "close_all_trades", connected |-> connected]
          /\ closer' = NextPosition([closer EXCEPT !.failed_count = @ + 1])
          /\ UNCHANGED positions
    /\ UNCHANGED <<last_raw_error_message, exec, AUTO_TRADE_LOCK>>
    /\ UNCHANGED orderFrame

\* Lines 408-415: the summary is kept as the last error when a position
\* failed, and the call returns failed_count == 0.
CloseAllSummary ==
    /\ closer.pc = "summary"
    /\ last_raw_error_message' =
          IF closer.failed_count > 0 THEN <<"close_all_summary", closer.failed_count>>
          ELSE NoError
    /\ closer' = [IdleCloser EXCEPT
                     !.result = IF closer.failed_count = 0 THEN "ok" ELSE "failed"]
    /\ UNCHANGED <<exec, positions, last_order_send, AUTO_TRADE_LOCK>>
    /\ UNCHANGED orderFrame


\* ------------------------------- TradingApp.execute_trade_from_signal_data
\* The checks of steps 1-11 in the order of the code. The connection check is
\* decided by the manager's flag; the others by the clock, the news flag, the
\* signal, the settings, the venue and (manual trades) the confirmation dialog.
GateOrder == <<"time_filter", "news", "not_connected", "invalid_signal", "missing_symbol",
               "min_interval", "no_symbol_info", "no_spread", "spread_too_high",
               "no_tick", "invalid_price", "cancelled">>
GateIndex(g) == CHOOSE i \in 1..Len(GateOrder) : GateOrder[i] = g
EnvGates(e) == {GateOrder[i] : i \in 1..Len(GateOrder)}
                  \ ({"not_connected"} \cup IF e = Manual THEN {} ELSE {"cancelled"})

\* The execution call is over: an automatic one is still inside the with-block.
Finished(e, note) ==
    [IdleExec EXCEPT !.pc = IF e = Manual THEN "idle" ELSE "release", !.note = note]

\* The reason of the first failing check, "pass" when none fails; envFirst is
\* the first check failing for a reason other than the connection.
FirstFailing(envFirst) ==
    IF envFirst # "pass" /\ GateIndex(envFirst) < GateIndex("not_connected") THEN envFirst
    ELSE IF ~is_connected THEN "not_connected"
    ELSE envFirst

\* Lines 1787-2035: the checks, the lot size and the SL/TP prices; each failed
\* check returns (False, note). An exception leaves the call as well.
ExecGuards(e) ==
    /\ exec[e].pc = "guards"
    /\ \/ \E envFirst \in EnvGates(e) \cup {"pass"} :
             LET verdict == FirstFailing(envFirst) IN
             exec' = [exec EXCEPT ![e] =
                         IF verdict = "pass" THEN [exec[e] EXCEPT !.pc = "send_order"]
                         ELSE Finished(e, verdict)]
       \/ exec' = [exec EXCEPT ![e] = Finished(e, "raised")]
    /\ UNCHANGED <<last_raw_error_message, closer, positions, last_order_send, AUTO_TRADE_LOCK>>
    /\ UNCHANGED orderFrame

\* Lines 2046-2077: the result of send_order is turned into the outcome.
ExecResult(e) ==
    /\ exec[e].pc = "result"
    /\ exec' = [exec EXCEPT ![e] = Finished(e, IF exec[e].ok THEN "executed" ELSE "failed")]
    /\ UNCHANGED <<last_raw_error_message, closer, positions, last_order_send, AUTO_TRADE_LOCK>>
    /\ UNCHANGED orderFrame

\* Lines 427-428: the buy or sell button calls the execution directly.
ManualExecute ==
    /\ exec[Manual].pc = "idle"
    /\ exec' = [exec EXCEPT ![Manual] = [IdleExec EXCEPT !.pc = "guards"]]
    /\ UNCHANGED <<last_raw_error_message, closer, positions, last_order_send, AUTO_TRADE_LOCK>>
    /\ UNCHANGED orderFrame

\* ------------------ TradingApp.auto_execute_model_signal_if_conditions_met
\* Lines 2080-2103: the setting, the connection and the confidence threshold.
AutoArrive(a) ==
    /\ exec[a].pc = "idle"
    /\ \E auto_trade_enabled \in BOOLEAN, confident \in BOOLEAN :
          exec' = [exec EXCEPT ![a] =
             IF ~auto_trade_enabled THEN [IdleExec EXCEPT !.note = "auto_disabled"]
             ELSE IF ~is_connected THEN [IdleExec EXCEPT !.note = "auto_not_connected"]
             ELSE IF confident THEN [IdleExec EXCEPT !.pc = "lock_test"]
             ELSE [IdleExec EXCEPT !.note = "low_confidence"]]
    /\ UNCHANGED <<last_raw_error_message, closer, positions, last_order_send, AUTO_TRADE_LOCK>>
    /\ UNCHANGED orderFrame

\* Lines 2105-2109: `if AUTO_TRADE_LOCK.locked()`.
AutoTestLock(a) ==
    /\ exec[a].pc = "lock_test"
    /\ exec' = [exec EXCEPT ![a] =
          IF AUTO_TRADE_LOCK # NoHolder THEN [IdleExec EXCEPT !.note = "lock_active"]
          ELSE [IdleExec EXCEPT !.pc = "lock_wait"]]
    /\ UNCHANGED <<last_raw_error_message, closer, positions, last_order_send, AUTO_TRADE_LOCK>>
    /\ UNCHANGED orderFrame

\* An entry into the with-block that does not wait for the lock to be free.
AutoAcquireNoWait(a) ==
    /\ exec[a].pc = "lock_wait"
    /\ AUTO_TRADE_LOCK' = a
    /\ exec' = [exec EXCEPT ![a].pc = "guards"]
    /\ UNCHANGED <<last_raw_error_message, closer, positions, last_order_send>>
    /\ UNCHANGED orderFrame

\* Line 2111: `with AUTO_TRADE_LOCK`, a blocking acquire.
AutoAcquire(a) ==
    /\ exec[a].pc = "lock_wait"
    /\ AUTO_TRADE_LOCK = NoHolder
    /\ AUTO_TRADE_LOCK' = a
    /\ exec' = [exec EXCEPT ![a].pc = "guards"]
    /\ UNCHANGED <<last_raw_error_message, closer, positions, last_order_send>>
    /\ UNCHANGED orderFrame

\* acquire() and release() around the call with no try/finally: an exception
\* leaves the function with the lock still held.
AutoReleaseUnlessRaised(a) ==
    /\ exec[a].pc = "release"
    /\ AUTO_TRADE_LOCK' = IF exec[a].note = "raised" THEN AUTO_TRADE_LOCK ELSE NoHolder
    /\ exec' = [exec EXCEPT ![a].pc = "idle"]
    /\ UNCHANGED <<last_raw_error_message, closer, positions, last_order_send>>
    /\ UNCHANGED orderFrame

\* Line 2121: the with-block is left, on return or on an exception.
AutoRelease(a) ==
    /\ exec[a].pc = "release"
    /\ AUTO_TRADE_LOCK' = NoHolder
    /\ exec' = [exec EXCEPT ![a].pc = "idle"]
    /\ UNCHANGED <<last_raw_error_message, closer, positions, last_order_send>>
    /\ UNCHANGED orderFrame

\* Inside execute_trade_from_signal_data.
InExecution(e) ==
    exec[e].pc \in {"guards", "send_order", "tick", "order_check", "order_send", "result"}


\* ------------------------------------ TradingApp.calculate_lot_size_advanced
\* Volumes are integers in units of 1/VolScale lot, prices and rates in units
\* of 1/RateScale; the arithmetic is exact. Python's round() of a binary
\* float that lies halfway between two results in decimal goes to either
\* neighbour, depending on the float's representation: tieUp is that choice.
VolScale == 10 * 10 * 10
VolDecimals == 1 + 1 + 1
RateScale == 10 * 10
DefaultLot == VolScale \div (10 * 10)      \* the literal 0.01
NotComputed == -1
Absent == -1                                \* an attribute the venue does not give

RECURSIVE Pow10(_)
Pow10(n) == IF n <= 0 THEN 1 ELSE 10 * Pow10(n - 1)

Max2(a, b) == IF a >= b THEN a ELSE b

RECURSIVE Gcd(_, _)
Gcd(a, b) == IF b = 0 THEN a ELSE Gcd(b, a % b)

\* A fraction <<numerator, denominator>> in lowest terms.
Lowest(f) == LET g == Gcd(f[1], f[2]) IN IF g = 0 THEN f ELSE <<f[1] \div g, f[2] \div g>>

\* round(n / d) for n >= 0, d > 0.
RoundDiv(n, d, tieUp) ==
    LET q == n \div d
        r == n % d
    IN  IF 2 * r < d THEN q
        ELSE IF 2 * r > d THEN q + 1
        ELSE IF tieUp THEN q + 1 ELSE q

\* round(v, digits) of a volume v.
RoundDigits(v, digits, tieUp) ==
    IF digits >= VolDecimals THEN v
    ELSE LET unit == Pow10(VolDecimals - digits) IN RoundDiv(v, unit, tieUp) * unit

\* Lines 660-664: symbol_info.volume_digits when the venue gives it, else the
\* decimals of f"{volume_step:.10f}".rstrip('0'), or 2 when it has none.
VolumeDigitsPrecision(a) ==
    IF a.volume_digits >= 0 THEN a.volume_digits
    ELSE LET d == CHOOSE k \in 0..VolDecimals :
                     /\ a.volume_step % Pow10(VolDecimals - k) = 0
                     /\ \A j \in 0..(k - 1) : a.volume_step % Pow10(VolDecimals - j) # 0
         IN  IF d = 0 THEN 2 ELSE d

\* Lines 667-668.
EffectiveVolumeMin(a) == IF a.volume_min <= 0 THEN DefaultLot ELSE a.volume_min
EffectiveVolumeStep(a) == IF a.volume_step <= 0 THEN DefaultLot ELSE a.volume_step

\* Lines 633-642: the fallback when the manager is not connected, the risk
\* percent is not positive or the account snapshot is unavailable.
MinLotFallback(a, haveSymbolInfo) ==
    IF haveSymbolInfo /\ a.volume_min > 0 THEN a.volume_min ELSE DefaultLot

\* Lines 672, 678, 684, 711, 718: round(max(volume_min, 0.01), precision).
MinLotRounded(a) ==
    RoundDigits(Max2(EffectiveVolumeMin(a), DefaultLot), VolumeDigitsPrecision(a), a.tie_digits_up)

\* Lines 687-707: profit currency to account currency, as numerator and
\* denominator: pair1's bid, else 1 / pair2's ask, else 1.0.
ConversionRate(a) ==
    IF a.same_currency THEN <<1, 1>>
    ELSE IF a.pair1_bid > 0 THEN <<a.pair1_bid, RateScale>>
    ELSE IF a.pair2_ask > 0 THEN <<RateScale, a.pair2_ask>>
    ELSE <<1, 1>>

\* Lines 674-722: calculated_lot = risk amount / SL value of one lot, as
\* numerator and denominator of a fraction of lots.
CalculatedLot(a) ==
    LET conv == ConversionRate(a) IN
    Lowest(<<a.balance * a.risk_percent * RateScale * conv[2],
             (10 * 10) * a.sl_pips * a.trade_contract_size * a.point * conv[1]>>)

\* Lines 724-736: clamp to [volume_min, volume_max], round to the step, round
\* to the precision, and raise to volume_min when the result fell below it.
AdjustLot(a) ==
    LET vmin == EffectiveVolumeMin(a)
        step == EffectiveVolumeStep(a)
        calc == CalculatedLot(a)
        n0 == calc[1] * VolScale
        d0 == calc[2]
        raised == IF n0 < vmin * d0 THEN <<vmin, 1>> ELSE <<n0, d0>>
        capped == IF raised[1] > a.volume_max * raised[2] THEN <<a.volume_max, 1>> ELSE raised
        stepped == RoundDiv(capped[1], capped[2] * step, a.tie_step_up) * step
        final == RoundDigits(stepped, VolumeDigitsPrecision(a), a.tie_digits_up)
    IN  IF final < vmin THEN vmin
        ELSE IF final = 0 /\ vmin > 0 THEN vmin
        ELSE final

calculate_lot_size_advanced(a) ==
    IF ~is_connected \/ a.risk_percent <= 0
       THEN MinLotFallback(a, is_connected /\ a.symbol_info)
    ELSE IF ~a.account_info THEN MinLotFallback(a, a.symbol_info)
    ELSE IF ~a.symbol_info THEN DefaultLot
    ELSE IF a.sl_pips <= 0 THEN MinLotRounded(a)
    ELSE IF a.trade_contract_size = 0 \/ a.point = 0 THEN MinLotRounded(a)
    ELSE AdjustLot(a)


\* One call of calculate_lot_size_advanced with the drawn arguments.
CalculateLot ==
    /\ lot_out = NotComputed
    /\ lot_out' = calculate_lot_size_advanced(lot_in)
    /\ UNCHANGED lot_in
    /\ UNCHANGED lotFrame

\* ------------------------------------------------------------ initial states
NoLotInput == [risk_percent |-> 0, sl_pips |-> 0, account_info |-> FALSE, balance |-> 0,
               symbol_info |-> FALSE, volume_min |-> 0, volume_max |-> 0, volume_step |-> 0,
               volume_digits |-> Absent, trade_contract_size |-> 0, point |-> 0,
               same_currency |-> TRUE, pair1_bid |-> 0, pair2_ask |-> 0,
               tie_step_up |-> FALSE, tie_digits_up |-> FALSE]

\* TradingApp.__init__ ends with connect_to_mt5_on_startup(): the first
\* connect thread is created and started, the manager is not connected.
InitConnection ==
    /\ connected = FALSE
    /\ last_raw_error_message = NoError
    /\ last_failed_reason = NoError
    /\ thread = [t \in Threads |-> IF t = 1 THEN [NoThreadRec EXCEPT !.pc = "start"]
                                   ELSE NoThreadRec]
    /\ mt5_connect_thread = 1

InitOrders ==
    /\ exec = [e \in Executors |-> IdleExec]
    /\ closer = IdleCloser
    /\ last_order_send = NoOrderSend
    /\ AUTO_TRADE_LOCK = NoHolder

NoTimeInput == [time_filter_enabled |-> FALSE, parsed |-> TRUE,
                start_trade_time |-> 0, end_trade_time |-> 0, now_utc |-> 0]

InitNoTime ==
    /\ time_in = NoTimeInput
    /\ time_out = <<>>

\* Two traded symbols, so that a call on one leaves the other to be looked at.
Symbols == {1, 2}
Never == -1
NoNote == [kind |-> "none", why |-> "none"]
NoRow == [present |-> FALSE, executed |-> FALSE, notes |-> NoNote]
NoAttempt == [returned |-> FALSE, is_auto_trade |-> FALSE, symbol |-> 1, symbol_truthy |-> TRUE,
              would_fail |-> {}, evaluated |-> <<>>, blocked_by |-> "none", sized |-> FALSE,
              sends |-> 0, venue |-> "none", order |-> 0,
              min_trade_interval |-> 0, time_since_last |-> Never, wait_time |-> 0,
              ok |-> FALSE, reason |-> NoNote, current_note |-> NoNote]

InitNoExec ==
    /\ attempt = NoAttempt
    /\ now = 0
    /\ last_trade_time = [s \in Symbols |-> Never]
    /\ df_signals = [s \in Symbols |-> NoRow]

InitNoMerge ==
    /\ merge_in = <<>>
    /\ merge_out = <<>>

\* A position as the monitor sees it: mt5.positions_get gives type and
\* price_open, get_tick the bid and ask of its symbol (tick = FALSE: None),
\* get_symbol_info the point (info = FALSE: None). Prices are in units of the
\* smallest price step.
NoQuote == [type |-> "buy", price_open |-> 0, bid |-> 0, ask |-> 0,
            info |-> FALSE, tick |-> FALSE, point |-> 0]
NoTick == [ticked |-> FALSE, enabled |-> FALSE, target |-> 0, seen |-> <<>>,
           total |-> 0, invoked |-> FALSE]

SymbolClasses == {"gold", "bitcoin", "other"}
NoSpreadInput == [tick_spread |-> Absent, info_spread |-> Absent, spread_pips |-> Absent,
                  class |-> "other", max_allowed_spread_points |-> [c \in SymbolClasses |-> 0]]

InitNoSpread ==
    /\ spread_in = NoSpreadInput
    /\ spread_out = <<>>

NoRefresh == [ran |-> FALSE, symbol |-> 1, auto_trade_enabled |-> FALSE,
              confident |-> FALSE, path |-> "none", order_sent |-> FALSE,
              executed_before |-> FALSE]

InitNoRefresh ==
    /\ auto_orders = [s \in Symbols |-> 0]
    /\ refresh = NoRefresh

InitNoSide ==
    /\ market = [t \in Tickets |-> NoQuote]
    /\ monitor = NoTick
    /\ InitNoSpread
    /\ InitNoRefresh

InitRest == InitNoTime /\ InitNoExec /\ InitNoMerge /\ InitNoSide

InitNoLot ==
    /\ lot_in = NoLotInput
    /\ lot_out = NotComputed
    /\ InitRest

\* ------------------------------------------------ connection management
Init ==
    /\ login \in LoginKinds
    /\ retries \in 0..MaxRetries
    /\ InitConnection
    /\ InitOrders
    /\ positions = {}
    /\ InitNoLot

ThreadStep(t) ==
    \/ ConnectEntry(t)
    \/ ConnectAttempt(t)
    \/ ConnectExhausted(t)
    \/ ThreadFinish(t)

Next ==
    \/ toggle_mt5_connection
    \/ show_settings_dialog
    \/ \E t \in Threads : ThreadStep(t)
    \/ \E t \in Threads : OnMt5ThreadFinished(t)

Spec == Init /\ [][Next]_vars


\* C7: connect() called while the manager is connected returns true at once,
\* with no attempt and no mt5.initialize, and leaves `connected` and the
\* retained last error as they were.
C7_ConnectIdempotent ==
    [][\A t \in Threads :
          (thread[t].pc = "start" /\ connected /\ thread'[t] # thread[t])
          => /\ thread'[t] = [thread[t] EXCEPT !.pc = "returned", !.result = TRUE]
             /\ thread'[t].attempt = 0
             /\ thread'[t].inits = 0
             /\ connected' = connected
             /\ last_raw_error_message' = last_raw_error_message]_vars

\* A connect() that returned through the shortcut.
C7_Witness ==
    \E t \in Threads :
        /\ thread[t].pc = "returned"
        /\ thread[t].result
        /\ thread[t].attempt = 0
        /\ connected

\* C8: at most one MT5ConnectThread is inside connect() at any time.
C8_OneAttemptActive == Cardinality({t \in Threads : InConnect(t)}) <= 1

\* ------------------------------------ connection management, serialized
\* The requests arrive after the finished slot of the previous connect thread
\* has run, so that one connect() call is in progress at a time; a started
\* thread keeps running until run() returns.
NoFinishedPending == \A t \in Threads : thread[t].pc # "finished"

ToggleSerial == NoFinishedPending /\ toggle_mt5_connection

SettingsSerial == NoFinishedPending /\ show_settings_dialog

NextConnect ==
    \/ ToggleSerial
    \/ SettingsSerial
    \/ \E t \in Threads : ThreadStep(t)
    \/ \E t \in Threads : OnMt5ThreadFinished(t)

SpecConnect ==
    /\ Init
    /\ [][NextConnect]_vars
    /\ \A t \in Threads : WF_vars(ThreadStep(t))

HasReturned(t) == thread[t].pc = "returned"

\* C4: with a numeric login connect() makes at most `retries` attempts, each
\* calling mt5.initialize at most once, it always returns, and when it returns
\* false the manager is not connected and the retained error is the reason of
\* the last failed attempt.
C4_BoundedRetry ==
    /\ [](\A t \in Threads :
            /\ thread[t].attempt <= retries
            /\ thread[t].inits <= thread[t].attempt
            /\ (login = "numeric" /\ HasReturned(t) /\ ~thread[t].result)
               => /\ ~connected
                  /\ thread[t].attempt >= 1 => last_raw_error_message = last_failed_reason)
    /\ \A t \in Threads : InConnect(t) ~> ~InConnect(t)

\* connect() returned false after the second of two failed attempts.
C4_Witness ==
    \E t \in Threads :
        /\ login = "numeric"
        /\ HasReturned(t)
        /\ ~thread[t].result
        /\ thread[t].attempt = 2
        /\ last_raw_error_message = last_failed_reason

\* C5: with a non-numeric login connect() returns false on the attempt that
\* finds it, without calling mt5.initialize, without a retry delay and without
\* a further attempt, and the manager stays not connected.
C5_MalformedLoginFatal ==
    login = "malformed" =>
        /\ ~connected
        /\ \A t \in Threads :
              /\ thread[t].attempt <= 1
              /\ thread[t].inits = 0
              /\ thread[t].slept = 0
              /\ HasReturned(t) =>
                    /\ ~thread[t].result
                    /\ retries >= 1 => /\ thread[t].attempt = 1
                                       /\ last_raw_error_message = ConfigError

\* The configuration error was returned although retries remained.
C5_Witness ==
    \E t \in Threads :
        /\ login = "malformed"
        /\ retries >= 2
        /\ HasReturned(t)
        /\ ~thread[t].result
        /\ thread[t].attempt = 1

\* C6 as stated: connect() never returns false after fewer than `retries`
\* attempts.
C6_FullBudgetOrSuccess ==
    \A t \in Threads : (HasReturned(t) /\ ~thread[t].result) => thread[t].attempt = retries

\* C6 as the code has it: a false return after fewer than `retries` attempts
\* happens only for a configuration error, missing details (no attempt) or a
\* non-numeric login (the attempt that finds it); with a numeric login all
\* `retries` attempts have been made.
C6_FullBudgetUnlessConfigError ==
    \A t \in Threads :
        (HasReturned(t) /\ ~thread[t].result)
        => \/ login = "numeric" /\ thread[t].attempt = retries
           \/ login = "malformed" /\ thread[t].attempt = (IF retries = 0 THEN 0 ELSE 1)
           \/ login = "missing" /\ thread[t].attempt = 0 /\ last_raw_error_message = NotConfigured

\* The whole retry budget was spent before the failure was returned.
C6_Witness ==
    \E t \in Threads :
        /\ login = "numeric"
        /\ retries = 2
        /\ HasReturned(t)
        /\ ~thread[t].result
        /\ thread[t].attempt = retries
        /\ thread[t].slept = 1


\* ----------------------------------------------------- automatic execution
\* Calls of auto_execute_model_signal_if_conditions_met taken in every
\* interleaving of their steps, each running the execution it reaches.
InitAuto ==
    /\ login = "numeric"
    /\ retries = 1
    /\ connected \in BOOLEAN
    /\ last_raw_error_message = NoError
    /\ last_failed_reason = NoError
    /\ thread = [t \in Threads |-> NoThreadRec]
    /\ mt5_connect_thread = NoThread
    /\ InitOrders
    /\ positions = {}
    /\ InitNoLot

SendOrderStep(e) ==
    \/ SendOrderEntry(e)
    \/ SendOrderTick(e)
    \/ SendOrderCheck(e)
    \/ SendOrderSend(e)

AutoStep(a) ==
    \/ AutoArrive(a)
    \/ AutoTestLock(a)
    \/ AutoAcquire(a)
    \/ ExecGuards(a)
    \/ SendOrderStep(a)
    \/ ExecResult(a)
    \/ AutoRelease(a)

NextAuto == \E a \in AutoCallers : AutoStep(a)

SpecAuto == InitAuto /\ [][NextAuto]_vars

\* C1: no two automatic calls are inside execute_trade_from_signal_data at
\* the same time.
C1_OneAutoExecution ==
    \A a, b \in AutoCallers : (InExecution(a) /\ InExecution(b)) => a = b

\* One automatic call is executing while another has arrived and is about to
\* test the lock.
C1_Witness ==
    \E a, b \in AutoCallers :
        /\ a # b
        /\ InExecution(a)
        /\ AUTO_TRADE_LOCK = a
        /\ exec[b].pc = "lock_test"

\* C2: an automatic call that arrived while another holds the lock is never
\* waiting for the lock: it has been turned away with the lock-active note.
C2_NeverWaitsForLock ==
    \A b \in AutoCallers :
        exec[b].pc = "lock_wait" => AUTO_TRADE_LOCK = NoHolder


\* ------------------------------------------- orders and the connection
\* A manual execution and the bulk close (the close-all button and the
\* position monitor both call close_all_trades), interleaved with the
\* connection handlers and the connect thread.
InitTrading ==
    /\ login = "numeric"
    /\ retries = 1
    /\ InitConnection
    /\ InitOrders
    /\ positions \in SUBSET Tickets
    /\ InitNoLot

CloseAllStep ==
    \/ CloseAllEntry
    \/ CloseAllFetch
    \/ CloseAllPosition
    \/ CloseAllSummary

NextTrading ==
    \/ ToggleSerial
    \/ \E t \in Threads : ThreadStep(t)
    \/ \E t \in Threads : OnMt5ThreadFinished(t)
    \/ ManualExecute
    \/ ExecGuards(Manual)
    \/ SendOrderStep(Manual)
    \/ ExecResult(Manual)
    \/ CloseAllStep

SpecTrading == InitTrading /\ [][NextTrading]_vars

\* C3: every mt5.order_send, from send_order or from close_all_trades, was
\* issued while the manager was connected.
C3_OrderOnlyWhenConnected ==
    last_order_send.by # "none" => last_order_send.connected


\* ----------------------------------------------------------- lot sizing
\* The arguments and the venue data one call can meet. Volumes 0.01, 0.03,
\* 0.1, 0.18, 1 and 100 lots, steps 0.01, 0.025 and 0.1, rates 1.5 and 2.
RiskPercents == {0, 1, 2}
SlPips == {0, 40, 50}
Balances == {100, 10000}
VolumeMins == {0, 10, 30}
VolumeMaxs == {180, 1000, 100000}
VolumeSteps == {0, 10, 25, 100}
VolumeDigits == {Absent, 1, 2}
ContractSizes == {0, 100}
Points == {0, 1}
Rates == {0, 150, 200}

LotInputs ==
    {a \in [risk_percent : RiskPercents, sl_pips : SlPips, account_info : BOOLEAN,
            balance : Balances, symbol_info : BOOLEAN, volume_min : VolumeMins,
            volume_max : VolumeMaxs, volume_step : VolumeSteps,
            volume_digits : VolumeDigits, trade_contract_size : ContractSizes,
            point : Points, same_currency : BOOLEAN, pair1_bid : Rates, pair2_ask : Rates,
            tie_step_up : BOOLEAN, tie_digits_up : BOOLEAN] :
        \* data that is not there is given once
        /\ ~a.account_info => a.balance = 100
        /\ ~a.symbol_info =>
              /\ a.volume_min = 10 /\ a.volume_max = 1000 /\ a.volume_step = 10
              /\ a.volume_digits = Absent
              /\ a.trade_contract_size = 100 /\ a.point = 1 /\ a.same_currency
              /\ ~a.tie_step_up /\ ~a.tie_digits_up
        /\ a.same_currency => a.pair1_bid = 0 /\ a.pair2_ask = 0
        /\ a.pair1_bid > 0 => a.pair2_ask = 0
        /\ a.trade_contract_size = 0 => a.point = 1}

InitLot ==
    /\ login = "numeric"
    /\ retries = 1
    /\ connected \in BOOLEAN
    /\ last_raw_error_message = NoError
    /\ last_failed_reason = NoError
    /\ thread = [t \in Threads |-> NoThreadRec]
    /\ mt5_connect_thread = NoThread
    /\ InitOrders
    /\ positions = {}
    /\ lot_in \in LotInputs
    /\ lot_out = NotComputed
    /\ InitRest

NextLot == CalculateLot

SpecLot == InitLot /\ [][NextLot]_vars

\* The call went through the sizing of lines 721-736.
Sized ==
    /\ lot_out # NotComputed
    /\ is_connected
    /\ lot_in.risk_percent > 0
    /\ lot_in.sl_pips > 0
    /\ lot_in.account_info
    /\ lot_in.symbol_info
    /\ lot_in.trade_contract_size # 0
    /\ lot_in.point # 0

\* C9: with risk percent > 0, stop-loss distance > 0 and volume_min <=
\* volume_max the returned volume lies in [volume_min, volume_max].
C9_LotWithinRange ==
    (Sized /\ lot_in.volume_min <= lot_in.volume_max)
    => (lot_in.volume_min <= lot_out /\ lot_out <= lot_in.volume_max)

\* v is a multiple of the step, as seen at the volume precision.
IsStepMultiple(v, a) ==
    \E k \in 0..(v \div a.volume_step + 1) : \E tieUp \in BOOLEAN :
        RoundDigits(k * a.volume_step, VolumeDigitsPrecision(a), tieUp) = v

\* C10: with risk percent > 0 and stop-loss distance > 0 the returned volume
\* is a whole multiple of volume_step at the volume precision, also when it
\* was raised to volume_min or capped at volume_max.
C10_LotMultipleOfStep ==
    (Sized /\ lot_in.volume_step > 0) => IsStepMultiple(lot_out, lot_in)


\* The call took the fallback of lines 670-684: the stop-loss distance is not
\* positive, or the contract size or the point size is zero.
FellBack ==
    /\ lot_out # NotComputed
    /\ is_connected
    /\ lot_in.risk_percent > 0
    /\ lot_in.account_info
    /\ lot_in.symbol_info
    /\ \/ lot_in.sl_pips <= 0
       \/ lot_in.trade_contract_size = 0
       \/ lot_in.point = 0

\* C11: with a stop-loss distance <= 0, or a zero contract size or point
\* size, the returned volume is exactly the symbol's volume_min.
C11_FallbackIsVolumeMin ==
    (FellBack /\ lot_in.volume_min > 0) => lot_out = lot_in.volume_min


\* C17: an order_check that is absent or not "done" ends send_order with
\* failure and without an order_send; the check is made once per attempt and
\* order_send at most once, and only after a "done" check.
C17_CheckGuardsSend ==
    \A e \in Executors :
        /\ exec[e].sends <= 1
        /\ exec[e].sends = 1 => exec[e].validated = "done"
        /\ exec[e].pc = "order_check" => (exec[e].validated = "none" /\ exec[e].sends = 0)
        /\ exec[e].pc = "order_send" => (exec[e].validated = "done" /\ exec[e].sends = 0)
        /\ exec[e].validated \in {"absent", "rejected"}
           => (exec[e].pc = "result" /\ ~exec[e].ok /\ exec[e].sends = 0)

\* send_order returned failure after a rejected order_check.
C17_Witness ==
    /\ exec[Manual].pc = "result"
    /\ exec[Manual].validated = "rejected"
    /\ exec[Manual].sends = 0
    /\ ~exec[Manual].ok


\* The tickets of a sequence are pairwise different.
Distinct(q) == \A i, j \in 1..Len(q) : i # j => q[i] # q[j]

MinutesPerDay == 4
TicksPerMinute == 2
TicksPerDay == MinutesPerDay * TicksPerMinute
ClockTimes == 0..(TicksPerDay - 1)
MinuteTimes == {m * TicksPerMinute : m \in 0..(MinutesPerDay - 1)}

\* Lines 1759-1779. `parsed` is FALSE when strptime raises on a setting, which
\* the except clause turns into True.
is_trading_time_allowed(a) ==
    IF ~a.time_filter_enabled THEN TRUE
    ELSE IF ~a.parsed THEN TRUE
    ELSE IF a.start_trade_time <= a.end_trade_time
         THEN a.start_trade_time <= a.now_utc /\ a.now_utc <= a.end_trade_time
         ELSE a.now_utc >= a.start_trade_time \/ a.now_utc <= a.end_trade_time

CheckTradingTime ==
    /\ time_out = <<>>
    /\ time_out' = <<is_trading_time_allowed(time_in)>>
    /\ UNCHANGED <<time_in, lot_in, lot_out, managerVars, execVars, mergeVars, sideVars>>

TimeInputs ==
    [time_filter_enabled : BOOLEAN, parsed : BOOLEAN,
     start_trade_time : MinuteTimes, end_trade_time : MinuteTimes, now_utc : ClockTimes]

InitQuiet ==
    /\ login = "numeric"
    /\ retries = 1
    /\ connected \in BOOLEAN
    /\ last_raw_error_message = NoError
    /\ last_failed_reason = NoError
    /\ thread = [t \in Threads |-> NoThreadRec]
    /\ mt5_connect_thread = NoThread
    /\ InitOrders
    /\ positions = {}
    /\ lot_in = NoLotInput
    /\ lot_out = NotComputed

InitTime ==
    /\ InitQuiet
    /\ time_in \in TimeInputs
    /\ time_out = <<>>
    /\ InitNoSide
    /\ InitNoExec
    /\ InitNoMerge

NextTime == CheckTradingTime

SpecTime == InitTime /\ [][NextTime]_vars

\* The half-open window [start, end), wrapping past midnight when start > end.
InHalfOpenWindow(a) ==
    IF a.start_trade_time <= a.end_trade_time
    THEN a.start_trade_time <= a.now_utc /\ a.now_utc < a.end_trade_time
    ELSE a.now_utc >= a.start_trade_time \/ a.now_utc < a.end_trade_time

\* C14: the trading-hours gate passes when disabled; when enabled (with
\* readable settings) it passes exactly when the time of day lies in the
\* half-open window [start, end), overnight wrap included.
C14_HalfOpenWindow ==
    time_out # <<>> =>
        /\ ~time_in.time_filter_enabled => time_out[1]
        /\ (time_in.time_filter_enabled /\ time_in.parsed)
           => (time_out[1] <=> InHalfOpenWindow(time_in))


\* ------------------- TradingApp.execute_trade_from_signal_data, in detail
\* The checks of lines 1787-2035 in the order of the code.
CheckOrderConnectionLast ==
    <<"time_filter", "news", "no_selection", "out_of_bounds", "invalid_signal",
      "missing_symbol", "min_interval", "no_symbol_info", "no_spread", "spread_too_high",
      "not_connected", "no_tick", "invalid_price", "cancelled">>

CheckOrder ==
    <<"time_filter", "news", "not_connected", "no_selection", "out_of_bounds",
      "invalid_signal", "missing_symbol", "min_interval", "no_symbol_info", "no_spread",
      "spread_too_high", "no_tick", "invalid_price", "cancelled">>

Checks == {CheckOrder[i] : i \in 1..Len(CheckOrder)}
CheckIndex(c) == CHOOSE i \in 1..Len(CheckOrder) : CheckOrder[i] = c

\* Lines 1812-1836 and 2019 run for a manual trade only (signal_data is None);
\* line 1849 takes the type of a manual trade from the button, "buy" or "sell".
ManualOnly == {"no_selection", "out_of_bounds", "cancelled"}
AutoOnly == {"invalid_signal"}
\* A manual trade that is let past the news and the spread checks.
ApplicableManualUnguarded(is_auto_trade) ==
    Checks \ (IF is_auto_trade THEN ManualOnly
              ELSE AutoOnly \cup {"news", "no_spread", "spread_too_high"})
Applicable(is_auto_trade) == Checks \ (IF is_auto_trade THEN ManualOnly ELSE AutoOnly)

\* The checks decided by the clock, the news, the signal, the venue and the user.
EnvChecks == Checks \ {"not_connected", "min_interval"}

\* Line 1937 is reached when the spread check of line 1910 has passed.
SizedAfterInterval == "min_interval"
SizedAfter == "spread_too_high"

\* Line 1872, in ticks.
IntervalNotMetInclusive(time_since_last, interval) == time_since_last <= interval
IntervalNotMet(time_since_last, interval) == time_since_last < interval

MaxClock == 2
MaxIntervalMinutes == 1
Intervals == {m * TicksPerMinute : m \in 0..MaxIntervalMinutes}
VenueOutcomes == {"send_no_tick", "send_invalid_price", "check_absent", "check_rejected",
                  "send_absent", "rejected", "done", "placed"}
OrderTickets == {0, 1}

\* MT5Manager.send_order, lines 250-313: whether order_send was called, and
\* the (success, result or message) it returns.
OrderSendCalled(venue) == venue \in {"send_absent", "rejected", "done", "placed"}
send_order_success(venue) == venue \in {"done", "placed"}
send_order_error(venue) ==
    CASE venue = "send_no_tick" -> <<"tick_failed", 0>>
      [] venue = "send_invalid_price" -> <<"invalid_price", 0>>
      [] venue = "check_absent" -> <<"order_check_none", MaxErrCode>>
      [] venue = "check_rejected" -> <<"order_check_rejected", MaxErrCode>>
      [] venue = "send_absent" -> <<"order_send_none", MaxErrCode>>
      [] venue = "rejected" -> <<"order_send_rejected", MaxErrCode>>
      [] OTHER -> NoError

\* _update_signal_status_in_df, lines 156-201: every row with the signal's
\* time and symbol gets the status and the note; no such row, no change.
update_signal_status(df, s, executed_status, note_text) ==
    IF df[s].present
    THEN [df EXCEPT ![s].executed = executed_status, ![s].notes = note_text]
    ELSE df

\* The checks that fail in this call: those of the environment that apply to
\* it, the connection flag (line 1804) and the interval (lines 1870-1872).
WouldFail(is_auto_trade, failing, s, interval) ==
    (failing \cap Applicable(is_auto_trade))
    \cup (IF is_connected THEN {} ELSE {"not_connected"})
    \cup (IF /\ last_trade_time[s] # Never
             /\ interval > 0
             /\ IntervalNotMet(now - last_trade_time[s], interval)
          THEN {"min_interval"} ELSE {})

\* The first check of the code that fails, "pass" when none does.
FirstBlock(W) ==
    IF W = {} THEN "pass"
    ELSE CheckOrder[MinOf({CheckIndex(c) : c \in W})]

\* The checks the call goes through before it returns.
Evaluated(is_auto_trade, W) ==
    LET last == IF W = {} THEN Len(CheckOrder) ELSE CheckIndex(FirstBlock(W)) IN
    SelectSeq(SubSeq(CheckOrder, 1, last), LAMBDA c : c \in Applicable(is_auto_trade))

\* Lines 1792, 1800, 1808: the first three checks write the note when
\* signal_data was passed (an automatic trade); lines 1816, 1835 write
\* nothing; from line 1855 on the note is written when the signal's time and
\* symbol are truthy.
NoteWritten(is_auto_trade, block, symbol_truthy) ==
    IF block \in {"time_filter", "news", "not_connected"} THEN is_auto_trade
    ELSE IF block \in {"no_selection", "out_of_bounds"} THEN FALSE
    ELSE symbol_truthy

\* Line 2049: the note of an executed order.
ExecutedNote == [kind |-> "executed", why |-> "Order ID"]

\* The environment checks that fail together in one call: none, one or two.
FailingSets == {{}} \cup {{c, d} : c \in EnvChecks, d \in EnvChecks}

\* The time of every attempt is kept, whatever its outcome.
record_attempt_time(s, success) == [last_trade_time EXCEPT ![s] = now]

\* Line 2053, in the branch of line 2047.
record_trade_time(s, success) ==
    IF success THEN [last_trade_time EXCEPT ![s] = now] ELSE last_trade_time

ExecuteTrade ==
    /\ ~attempt.returned
    /\ \E is_auto_trade \in IF AUTO_TRADE_LOCK = NoHolder THEN {FALSE} ELSE BOOLEAN,
          s \in Symbols, interval \in Intervals :
        \E failing \in {F \in FailingSets : F \subseteq Applicable(is_auto_trade)} :
        \E symbol_truthy \in IF "missing_symbol" \in failing THEN BOOLEAN ELSE {TRUE} :
        \E venue \in IF WouldFail(is_auto_trade, failing, s, interval) = {}
                     THEN VenueOutcomes ELSE {"none"} :
        \E order \in IF send_order_success(venue) THEN OrderTickets ELSE {0} :
           LET W == WouldFail(is_auto_trade, failing, s, interval)
               block == FirstBlock(W)
               since == IF last_trade_time[s] = Never THEN Never ELSE now - last_trade_time[s]
               passed == block = "pass"
               success == passed /\ send_order_success(venue) /\ order > 0
               message == IF send_order_success(venue)
                          THEN [kind |-> "message", why |-> "Unknown order send error"]
                          ELSE [kind |-> "message", why |-> send_order_error(venue)[1]]
               note == IF ~passed THEN [kind |-> "blocked", why |-> block]
                       ELSE IF success THEN ExecutedNote
                       ELSE [kind |-> "failed", why |-> message.why]
               written == IF passed THEN symbol_truthy
                          ELSE NoteWritten(is_auto_trade, block, symbol_truthy)
           IN
           /\ attempt' =
                 [returned |-> TRUE, is_auto_trade |-> is_auto_trade, symbol |-> s,
                  symbol_truthy |-> symbol_truthy, would_fail |-> W,
                  evaluated |-> Evaluated(is_auto_trade, W), blocked_by |-> block,
                  sized |-> \A c \in W : CheckIndex(c) > CheckIndex(SizedAfter),
                  sends |-> IF passed /\ OrderSendCalled(venue) THEN 1 ELSE 0,
                  venue |-> venue, order |-> order,
                  min_trade_interval |-> interval, time_since_last |-> since,
                  wait_time |-> IF block = "min_interval" THEN interval - since ELSE 0,
                  ok |-> success,
                  reason |-> IF ~passed /\ block \in {"no_selection", "out_of_bounds"}
                             THEN [kind |-> "message", why |-> block]
                             ELSE IF passed /\ ~success THEN message
                             ELSE note,
                  current_note |-> note]
           /\ df_signals' = IF written THEN update_signal_status(df_signals, s, success, note)
                            ELSE df_signals
           /\ last_trade_time' = record_trade_time(s, success)
           /\ last_raw_error_message' = IF passed THEN send_order_error(venue)
                                        ELSE last_raw_error_message
           /\ last_order_send' = IF passed /\ OrderSendCalled(venue)
                                 THEN [by |-> "send_order", connected |-> connected]
                                 ELSE last_order_send
           /\ UNCHANGED <<now, time_in, time_out, lot_in, lot_out, mergeVars, sideVars>>
           /\ UNCHANGED <<login, retries, connected, last_failed_reason, thread,
                          mt5_connect_thread, exec, closer, positions, AUTO_TRADE_LOCK>>

\* One call at the time MaxClock (the checks read differences of times only),
\* started from what earlier calls can have left: for each symbol
\* the time of its last executed order, if any, and a ledger row that is
\* absent, new, or marked executed by that order. An automatic call is made
\* inside the with-block of line 2111, its caller holding the lock; a manual
\* call is made from the buttons of lines 427-428, with the lock free or held
\* by an automatic caller.
InitExec ==
    /\ login = "numeric"
    /\ retries = 1
    /\ connected \in BOOLEAN
    /\ last_raw_error_message = NoError
    /\ last_failed_reason = NoError
    /\ thread = [t \in Threads |-> NoThreadRec]
    /\ mt5_connect_thread = NoThread
    /\ AUTO_TRADE_LOCK \in {NoHolder, MinOf(AutoCallers)}
    /\ exec = [e \in Executors |->
                 IF e = AUTO_TRADE_LOCK THEN [IdleExec EXCEPT !.pc = "guards"] ELSE IdleExec]
    /\ closer = IdleCloser
    /\ last_order_send = NoOrderSend
    /\ positions = {}
    /\ lot_in = NoLotInput
    /\ lot_out = NotComputed
    /\ InitNoTime
    /\ InitNoMerge
    /\ InitNoSide
    /\ attempt = NoAttempt
    /\ now = MaxClock
    /\ last_trade_time \in [Symbols -> {Never} \cup 0..MaxClock]
    /\ \A s \in Symbols : last_trade_time[s] <= now
    /\ df_signals \in [Symbols -> {NoRow, [NoRow EXCEPT !.present = TRUE],
                                   [present |-> TRUE, executed |-> TRUE, notes |-> ExecutedNote]}]
    /\ \A s \in Symbols : df_signals[s].executed => last_trade_time[s] # Never

NextExec == ExecuteTrade

SpecExec == InitExec /\ [][NextExec]_vars


\* The six guard gates, and the gate each check of the code belongs to
\* ("none": the table selection, the symbol info and the checks after sizing).
GuardOrder == <<"trading_hours", "news", "connectivity", "signal_validity", "re_entry", "spread">>
GuardIndex(g) == CHOOSE i \in 1..Len(GuardOrder) : GuardOrder[i] = g
GateOf(c) ==
    CASE c = "time_filter" -> "trading_hours"
      [] c = "news" -> "news"
      [] c = "not_connected" -> "connectivity"
      [] c \in {"invalid_signal", "missing_symbol"} -> "signal_validity"
      [] c = "min_interval" -> "re_entry"
      [] c \in {"no_spread", "spread_too_high"} -> "spread"
      [] OTHER -> "none"
FailingGates == {GateOf(c) : c \in attempt.would_fail} \ {"none"}
EvaluatedGates == {GateOf(attempt.evaluated[i]) : i \in 1..Len(attempt.evaluated)} \ {"none"}
EarliestFailingGate == GuardOrder[MinOf({GuardIndex(g) : g \in FailingGates})]

\* C12: the gates are evaluated in the order trading-hours, news,
\* connectivity, signal validity, re-entry interval, spread; when gates would
\* fail the call returns failure at or before the earliest of them, a gate
\* that blocks is that earliest one and its reason is returned, and no later
\* gate is evaluated.
C12_FirstFailingGate ==
    attempt.returned =>
        /\ \A i, j \in 1..Len(attempt.evaluated) :
              (/\ i < j
               /\ GateOf(attempt.evaluated[i]) # "none"
               /\ GateOf(attempt.evaluated[j]) # "none")
              => GuardIndex(GateOf(attempt.evaluated[i])) <= GuardIndex(GateOf(attempt.evaluated[j]))
        /\ FailingGates # {} =>
              /\ ~attempt.ok
              /\ attempt.blocked_by # "pass"
              /\ GateOf(attempt.blocked_by) \in {EarliestFailingGate, "none"}
              /\ \A h \in EvaluatedGates : GuardIndex(h) <= GuardIndex(EarliestFailingGate)
              /\ GateOf(attempt.blocked_by) = EarliestFailingGate =>
                    /\ attempt.reason = [kind |-> "blocked", why |-> attempt.blocked_by]
                    /\ EvaluatedGates =
                          {h \in {GuardOrder[i] : i \in 1..Len(GuardOrder)} :
                              GuardIndex(h) <= GuardIndex(EarliestFailingGate)}

\* The news gate and the spread gate would both fail: the call stops at the
\* news gate.
C12_Witness ==
    /\ attempt.returned
    /\ attempt.would_fail = {"news", "spread_too_high"}
    /\ attempt.blocked_by = "news"
    /\ attempt.evaluated = <<"time_filter", "news">>

\* C13: the lot size is computed only when every gate has passed and
\* send_order is called only after it: a call in which a gate fails computes
\* no lot size and sends nothing.
C13_SizingAfterGates ==
    attempt.returned =>
        /\ FailingGates # {} =>
              (~attempt.sized /\ attempt.venue = "none" /\ attempt.sends = 0)
        /\ attempt.sized => EvaluatedGates = {GuardOrder[i] : i \in 1..Len(GuardOrder)}
        /\ (attempt.venue # "none" \/ attempt.sends > 0) => attempt.sized

\* Only the last gate, the spread, fails: nothing is sized or sent.
C13_Witness ==
    /\ attempt.returned
    /\ attempt.would_fail = {"spread_too_high"}
    /\ attempt.blocked_by = "spread_too_high"
    /\ ~attempt.sized
    /\ attempt.sends = 0

\* The call got as far as the interval check of line 1870.
ReachedInterval ==
    \A c \in attempt.would_fail : CheckIndex(c) >= CheckIndex("min_interval")

\* C15: an executed order on a symbol at t0 is recorded in last_trade_time;
\* a call for that symbol at t with t - t0 < the minimum interval sends
\* nothing and, when it gets to the interval check, is blocked there with the
\* remaining wait; at t - t0 >= the interval the check does not block, and a
\* call with nothing else failing goes on to the sizing.
C15_ReentryInterval ==
    /\ (attempt.returned /\ attempt.ok) => last_trade_time[attempt.symbol] = now
    /\ (attempt.returned /\ attempt.time_since_last # Never) =>
          /\ attempt.time_since_last < attempt.min_trade_interval =>
                /\ ~attempt.ok
                /\ attempt.venue = "none"
                /\ ReachedInterval =>
                      /\ attempt.blocked_by = "min_interval"
                      /\ attempt.reason = [kind |-> "blocked", why |-> "min_interval"]
                      /\ attempt.wait_time = attempt.min_trade_interval - attempt.time_since_last
          /\ attempt.time_since_last >= attempt.min_trade_interval =>
                /\ attempt.blocked_by # "min_interval"
                /\ attempt.would_fail = {} => attempt.sized

\* One tick after an order, with an interval of one minute: blocked, one tick
\* to wait.
C15_Witness ==
    /\ attempt.returned
    /\ attempt.time_since_last = 1
    /\ attempt.min_trade_interval = TicksPerMinute
    /\ attempt.blocked_by = "min_interval"
    /\ attempt.wait_time = TicksPerMinute - 1

\* C16: a submitted order that the venue resolves with "done" or "placed"
\* makes the call return success, with last_trade_time of the symbol set to
\* now and the signal's ledger row marked executed; any other result of
\* send_order makes it return failure.
C16_DoneOrPlacedIsSuccess ==
    (attempt.returned /\ attempt.venue # "none") =>
        IF attempt.venue \in {"done", "placed"}
        THEN /\ attempt.ok
             /\ last_trade_time[attempt.symbol] = now
             /\ df_signals[attempt.symbol].present => df_signals[attempt.symbol].executed
        ELSE ~attempt.ok

\* The call was made on a signal that has a row in the ledger: an automatic
\* trade on such a signal, or a manual trade with a table row selected.
OnLedgerSignal ==
    /\ attempt.returned
    /\ df_signals[attempt.symbol].present
    /\ attempt.would_fail \cap {"no_selection", "out_of_bounds"} = {}

\* C19: a call on a ledger signal that returns failure leaves the row of the
\* signal with executed = false and with the returned reason as its note.
C19_FailureNoteOnLedger ==
    (OnLedgerSignal /\ ~attempt.ok) =>
        /\ ~df_signals[attempt.symbol].executed
        /\ df_signals[attempt.symbol].notes.kind \in {"blocked", "failed"}
        /\ df_signals[attempt.symbol].notes.why = attempt.reason.why


\* ---------------------------------- TradingApp.on_signals_loaded_processed
\* A row of the combined frame: its time (Absent: NaT after pd.to_datetime),
\* its Symbol ("NaN": missing), its confidence_% (Absent: not a number), its
\* executed flag and its notes.
MaxRows == 2
RowStatus == {<<FALSE, "">>, <<TRUE, "Executed">>}
MergeRows ==
    {[time |-> t, Symbol |-> y, confidence |-> c, executed |-> x[1], notes |-> x[2]] :
        t \in {Absent, 1, 2}, y \in {"NaN", "XAUUSD"}, c \in {Absent, 50, 90},
        x \in RowStatus}
MergeInputs == UNION {[1..n -> MergeRows] : n \in 0..MaxRows}

\* Line 1610: pd.to_numeric(..., errors='coerce').fillna(0.0).
Numeric(confidence) == IF confidence = Absent THEN 0 ELSE confidence

\* Line 1611: time descending, then confidence_% descending.
SortsBefore(a, b) ==
    \/ a.time > b.time
    \/ a.time = b.time /\ a.confidence > b.confidence

\* sort_values on two keys is a stable sort: a row goes after the rows that
\* do not sort after it.
RECURSIVE sort_values(_)
sort_values(q) ==
    IF q = <<>> THEN <<>>
    ELSE LET head == sort_values(SubSeq(q, 1, Len(q) - 1))
             e == q[Len(q)]
             before == SelectSeq(head, LAMBDA x : ~SortsBefore(e, x))
             after == SelectSeq(head, LAMBDA x : SortsBefore(e, x))
         IN before \o <<e>> \o after

SameKey(a, b) == a.time = b.time /\ a.Symbol = b.Symbol

\* drop_duplicates(subset=['time', 'Symbol']) keeping the last row of a key.
drop_duplicates_keep_last(q) ==
    LET kept == {i \in 1..Len(q) : \A j \in (i + 1)..Len(q) : ~SameKey(q[i], q[j])}
        F[i \in 0..Len(q)] ==
            IF i = 0 THEN <<>>
            ELSE IF i \in kept THEN Append(F[i - 1], q[i]) ELSE F[i - 1]
    IN F[Len(q)]

\* A merge that forgets to deduplicate.
drop_duplicates_none(q) == q

\* Line 1612: drop_duplicates(subset=['time', 'Symbol'], keep='first').
drop_duplicates(q) ==
    LET kept == {i \in 1..Len(q) : \A j \in 1..(i - 1) : ~SameKey(q[i], q[j])}
        F[i \in 0..Len(q)] ==
            IF i = 0 THEN <<>>
            ELSE IF i \in kept THEN Append(F[i - 1], q[i]) ELSE F[i - 1]
    IN F[Len(q)]

\* Lines 1604-1612: rows without a time or a Symbol are dropped, the
\* confidence is made numeric, the rows are sorted and deduplicated.
MergeSignals(q) ==
    LET keyed == SelectSeq(q, LAMBDA r : r.time # Absent /\ r.Symbol # "NaN")
        numeric == [i \in 1..Len(keyed) |->
                       [keyed[i] EXCEPT !.confidence = Numeric(@)]]
    IN drop_duplicates(sort_values(numeric))

OnSignalsLoadedProcessed ==
    /\ merge_out = <<>>
    /\ merge_out' = <<MergeSignals(merge_in)>>
    /\ UNCHANGED <<merge_in, time_in, time_out, lot_in, lot_out, managerVars, execVars, sideVars>>

InitMerge ==
    /\ InitQuiet
    /\ InitNoTime
    /\ InitNoSide
    /\ InitNoExec
    /\ merge_in \in MergeInputs
    /\ merge_out = <<>>

\* The merge is run again on its own result: as the only input, with no new
\* signal, or concatenated with itself.
Remerge ==
    /\ merge_out # <<>>
    /\ \E with_itself \in BOOLEAN :
          merge_in' = IF with_itself THEN merge_out[1] \o merge_out[1] ELSE merge_out[1]
    /\ merge_out' = <<MergeSignals(merge_in')>>
    /\ UNCHANGED <<time_in, time_out, lot_in, lot_out, managerVars, execVars, sideVars>>

NextMerge == OnSignalsLoadedProcessed \/ Remerge

SpecMerge == InitMerge /\ [][NextMerge]_vars

\* C20: after the merge no two rows of the ledger have the same (time,
\* Symbol); every input row with a time and a Symbol has its key in the
\* ledger, and the row kept for a key carries the highest confidence of the
\* input rows with that key.
C20_MergeKeepsHighest ==
    merge_out # <<>> =>
        /\ \A i, j \in 1..Len(merge_out[1]) : i # j => ~SameKey(merge_out[1][i], merge_out[1][j])
        /\ \A i \in 1..Len(merge_out[1]) :
              \E k \in 1..Len(merge_in) :
                  /\ SameKey(merge_in[k], merge_out[1][i])
                  /\ Numeric(merge_in[k].confidence) = merge_out[1][i].confidence
        /\ \A k \in 1..Len(merge_in) :
              (merge_in[k].time # Absent /\ merge_in[k].Symbol # "NaN") =>
                  \E i \in 1..Len(merge_out[1]) :
                      /\ SameKey(merge_in[k], merge_out[1][i])
                      /\ merge_out[1][i].confidence >= Numeric(merge_in[k].confidence)

\* Two input rows with the same key, the less confident one first: the
\* ledger keeps the other.
C20_Witness ==
    /\ merge_out # <<>>
    /\ Len(merge_in) >= 2
    /\ SameKey(merge_in[1], merge_in[2])
    /\ merge_in[1].time # Absent /\ merge_in[1].Symbol # "NaN"
    /\ merge_in[1].confidence = 50 /\ merge_in[2].confidence = 90
    /\ \E i \in 1..Len(merge_out[1]) :
          SameKey(merge_out[1][i], merge_in[1]) /\ merge_out[1][i].confidence = 90


\* C21: merging a merged ledger again, alone or concatenated with itself,
\* gives the same rows: none added, none dropped, executed and notes of every
\* row as they were.
C21_MergeIdempotent ==
    [][merge_out # <<>> => merge_out' = merge_out]_vars

\* A ledger of two rows, one of them executed, has been merged with itself.
C21_Witness ==
    /\ merge_out # <<>>
    /\ Len(merge_out[1]) = 2
    /\ Len(merge_in) = 2 * Len(merge_out[1])
    /\ \E i \in 1..Len(merge_out[1]) : merge_out[1][i].executed


\* The gates among the checks q, in the order of q.
GatesIn(q) ==
    LET g == SelectSeq([i \in 1..Len(q) |-> GateOf(q[i])], LAMBDA x : x # "none")
        first == {i \in 1..Len(g) : i = 1 \/ g[i] # g[i - 1]}
    IN  [k \in 1..Cardinality(first) |->
            g[CHOOSE i \in first : Cardinality({j \in first : j <= i}) = k]]

\* C22: a manual call leaves the auto-trade lock as it is, held or free, and
\* goes on while an automatic caller holds it; the conditions of the
\* environment being the same (nothing failing that only a manual call
\* checks), it goes through the gates an automatic call goes through, in the
\* same order, and stops at the same one.
C22_ManualIgnoresLock ==
    [][/\ AUTO_TRADE_LOCK' = AUTO_TRADE_LOCK
       /\ (attempt'.returned /\ ~attempt'.is_auto_trade
             /\ attempt'.would_fail \cap ManualOnly = {})
          => /\ GatesIn(attempt'.evaluated) = GatesIn(Evaluated(TRUE, attempt'.would_fail))
             /\ SelectSeq(attempt'.evaluated, LAMBDA c : c \notin ManualOnly \cup AutoOnly)
                   = SelectSeq(Evaluated(TRUE, attempt'.would_fail),
                               LAMBDA c : c \notin ManualOnly \cup AutoOnly)
             /\ attempt'.blocked_by = FirstBlock(attempt'.would_fail)]_vars

\* A manual order was sent and executed while an automatic caller held the
\* lock.
C22_Witness ==
    /\ attempt.returned
    /\ ~attempt.is_auto_trade
    /\ attempt.ok
    /\ AUTO_TRADE_LOCK # NoHolder


\* ------------------------- TradingApp.monitor_positions_for_auto_close()
\* The settings auto_close_target_points can hold, and what the venue can
\* say of a position: long or short, opened at 10, the market above or below
\* it, symbol info or tick missing, a point of 0, 1 or 2 price units.
Targets == {0, 2, 3}
Quotes ==
    {[type |-> t, price_open |-> 10, bid |-> q[1], ask |-> q[2],
      info |-> a[1], tick |-> a[2], point |-> a[3]] :
        t \in {"buy", "sell"},
        q \in {<<12, 14>>, <<6, 8>>},
        a \in {<<FALSE, TRUE, 1>>, <<TRUE, FALSE, 1>>, <<TRUE, TRUE, 0>>,
               <<TRUE, TRUE, 1>>, <<TRUE, TRUE, 2>>}}

\* Line 2220: the position is skipped.
Incomplete(p) == ~p.info \/ ~p.tick \/ p.point = 0

\* Lines 2224-2229.
profit_in_points_for_pos(p) ==
    IF p.type = "buy" THEN (p.bid - p.price_open) \div p.point
    ELSE (p.price_open - p.ask) \div p.point

\* A pass that ends at the first position it cannot price.
RECURSIVE current_total_abort(_)
current_total_abort(q) ==
    IF q = <<>> \/ Incomplete(market[Head(q)]) THEN 0
    ELSE profit_in_points_for_pos(market[Head(q)]) + current_total_abort(Tail(q))

\* Lines 2215-2230: the loop over the positions.
RECURSIVE current_total_profit_in_points(_)
current_total_profit_in_points(q) ==
    IF q = <<>> THEN 0
    ELSE (IF Incomplete(market[Head(q)]) THEN 0
          ELSE profit_in_points_for_pos(market[Head(q)]))
         + current_total_profit_in_points(Tail(q))

\* One timer tick. The call of close_all_trades at line 2239 starts with the
\* connection test of CloseAllEntry, which line 2206 has just passed; its
\* other steps follow.
MonitorTick ==
    /\ ~monitor.ticked
    /\ closer.pc = "idle"
    /\ \E enabled \in BOOLEAN, target \in Targets, venueOk \in BOOLEAN :
          LET goes_on == is_connected /\ enabled /\ target > 0
              seen == IF goes_on THEN get_open_positions(venueOk) ELSE <<>>
              total == current_total_profit_in_points(seen)
              invoked == goes_on /\ seen # <<>> /\ total >= target
          IN  /\ monitor' = [ticked |-> TRUE, enabled |-> enabled, target |-> target,
                             seen |-> seen, total |-> total, invoked |-> invoked]
              /\ closer' = IF invoked THEN [IdleCloser EXCEPT !.pc = "fetch"] ELSE closer
    /\ UNCHANGED <<login, retries, connected, last_raw_error_message, last_failed_reason,
                   thread, mt5_connect_thread, exec, positions, last_order_send,
                   AUTO_TRADE_LOCK, lot_in, lot_out, time_in, time_out, execVars,
                   mergeVars, market, spreadVars, refreshVars>>

\* The timer fires with the connection up or down, no call in progress, and
\* any of the managed positions open.
InitMonitor ==
    /\ login = "numeric"
    /\ retries = 1
    /\ connected \in BOOLEAN
    /\ last_raw_error_message = NoError
    /\ last_failed_reason = NoError
    /\ thread = [t \in Threads |-> NoThreadRec]
    /\ mt5_connect_thread = NoThread
    /\ InitOrders
    /\ positions \in SUBSET Tickets
    /\ market \in [Tickets -> Quotes \cup {NoQuote}]
    /\ \A t \in Tickets : market[t] = NoQuote <=> t \notin positions
    /\ monitor = NoTick
    /\ lot_in = NoLotInput
    /\ lot_out = NotComputed
    /\ InitNoTime
    /\ InitNoExec
    /\ InitNoMerge
    /\ InitNoSpread
    /\ InitNoRefresh

NextMonitor ==
    \/ MonitorTick
    \/ CloseAllFetch
    \/ CloseAllPosition
    \/ CloseAllSummary

SpecMonitor == InitMonitor /\ [][NextMonitor]_vars

\* The floating profit, in price steps, of the positions of S that can be
\* priced.
RECURSIVE FloatingProfit(_)
FloatingProfit(S) ==
    IF S = {} THEN 0
    ELSE LET t == CHOOSE x \in S : TRUE
             p == market[t]
             steps == IF ~(p.info /\ p.tick /\ p.point # 0) THEN 0
                      ELSE IF p.type = "buy" THEN (p.bid - p.price_open) \div p.point
                      ELSE (p.price_open - p.ask) \div p.point
         IN  steps + FloatingProfit(S \ {t})

\* C23: a monitor tick calls close_all_trades exactly when auto-close is
\* enabled, the target is positive and the floating profit of the managed
\* positions it was given, in price steps and leaving out the positions whose
\* symbol info or tick is missing, is at least the target; a tick that does
\* not call it changes nothing.
C23_MonitorTick ==
    [][monitor' # monitor =>
          LET m == monitor'
              managed == {m.seen[i] : i \in 1..Len(m.seen)}
          IN  /\ m.invoked <=> (/\ m.enabled
                                /\ m.target > 0
                                /\ FloatingProfit(managed) >= m.target)
              /\ m.invoked => closer'.pc = "fetch"
              /\ ~m.invoked => UNCHANGED <<managerVars, lot_in, lot_out, time_in, time_out,
                                           execVars, mergeVars, market, spreadVars,
                                           refreshVars>>]_vars

\* A tick that skipped a position without symbol info or tick, reached the
\* target with the others and called close_all_trades.
C23_Witness ==
    /\ monitor.ticked
    /\ monitor.invoked
    /\ Len(monitor.seen) > 1
    /\ Incomplete(market[monitor.seen[1]])


\* C24: last_trade_time is changed only by an attempt that returns success
\* after its order was resolved as executed, and only for the symbol of that
\* order; an attempt that is blocked, cancelled or fails leaves the whole map
\* as it was.
C24_LastTradeTimeFrame ==
    [][/\ last_trade_time' # last_trade_time
          => /\ attempt'.returned /\ ~attempt.returned
             /\ attempt'.ok
             /\ send_order_success(attempt'.venue)
             /\ \A s \in Symbols \ {attempt'.symbol} :
                   last_trade_time'[s] = last_trade_time[s]
       /\ (attempt'.returned /\ ~attempt.returned /\ ~attempt'.ok)
          => last_trade_time' = last_trade_time]_vars

\* An order on one symbol succeeded, its time was recorded, and the time of
\* an earlier trade on another symbol is still there.
C24_Witness ==
    /\ attempt.returned
    /\ attempt.ok
    /\ last_trade_time[attempt.symbol] = now
    /\ \E s \in Symbols \ {attempt.symbol} :
          last_trade_time[s] # Never /\ last_trade_time[s] < now


\* ---------------------------------- the spread check (step 8) on its own
MaxSpread == 3
Spreads == 0..MaxSpread

\* get_current_spread, lines 144-165: None when not connected, else
\* tick.spread when it is an int >= 0, else symbol_info.spread when it is, else
\* None.
get_current_spread(a) ==
    IF ~is_connected THEN Absent
    ELSE IF a.tick_spread >= 0 THEN a.tick_spread
    ELSE IF a.info_spread >= 0 THEN a.info_spread
    ELSE Absent

\* Lines 1891-1901: the live spread, or the signal's spread_pips when there is
\* none (Absent: not a number either).
current_market_spread_points(a) ==
    IF get_current_spread(a) # Absent THEN get_current_spread(a) ELSE a.spread_pips

\* Lines 1903-1908.
max_allowed_spread(a) == a.max_allowed_spread_points[a.class]

\* A ceiling that a spread equal to it exceeds.
SpreadTooHighInclusive(spread, max_allowed) == max_allowed > 0 /\ spread >= max_allowed

\* Line 1910.
SpreadTooHigh(spread, max_allowed) == max_allowed > 0 /\ spread > max_allowed

\* Lines 1890-1915.
check_spread(a) ==
    LET spread == current_market_spread_points(a) IN
    [spread |-> spread,
     source |-> IF get_current_spread(a) # Absent THEN "live"
                ELSE IF spread # Absent THEN "signal" ELSE "none",
     max_allowed_spread |-> max_allowed_spread(a),
     blocked |-> IF spread = Absent THEN "no_spread"
                 ELSE IF SpreadTooHigh(spread, max_allowed_spread(a)) THEN "spread_too_high"
                 ELSE "pass"]

CheckSpread ==
    /\ spread_out = <<>>
    /\ spread_out' = <<check_spread(spread_in)>>
    /\ UNCHANGED <<spread_in, market, monitor, managerVars, lot_in, lot_out, time_in,
                   time_out, execVars, mergeVars, refreshVars>>

SpreadInputs ==
    [tick_spread : {Absent} \cup Spreads, info_spread : {Absent, 1},
     spread_pips : {Absent} \cup Spreads, class : SymbolClasses,
     max_allowed_spread_points : [SymbolClasses -> {0, 2}]]

InitSpread ==
    /\ InitQuiet
    /\ InitNoTime
    /\ InitNoExec
    /\ InitNoMerge
    /\ market = [t \in Tickets |-> NoQuote]
    /\ monitor = NoTick
    /\ InitNoRefresh
    /\ spread_in \in SpreadInputs
    /\ spread_out = <<>>

NextSpread == CheckSpread

SpecSpread == InitSpread /\ [][NextSpread]_vars

\* The spread the venue gives to a connected manager: the tick's, or else the
\* symbol info's.
LiveSpread(a) ==
    IF ~connected THEN Absent
    ELSE IF a.tick_spread # Absent THEN a.tick_spread ELSE a.info_spread

\* C25: the spread the check uses is the live one when the venue gives one,
\* else the one recorded in the signal; with a spread to use, the check
\* blocks exactly when the ceiling of the symbol's class is above 0 and the
\* spread is above the ceiling, and with a ceiling of 0 it lets every spread
\* through.
C25_SpreadGate ==
    spread_out # <<>> =>
        LET r == spread_out[1]
            a == spread_in
            ceiling == a.max_allowed_spread_points[a.class]
        IN  /\ LiveSpread(a) # Absent => r.spread = LiveSpread(a)
            /\ LiveSpread(a) = Absent => r.spread = a.spread_pips
            /\ r.spread # Absent =>
                  /\ r.blocked # "pass" <=> (ceiling > 0 /\ r.spread > ceiling)
                  /\ ceiling = 0 => r.blocked = "pass"

\* Without a live spread the signal's spread was used; it equals the ceiling
\* and went through.
C25_Witness ==
    /\ spread_out # <<>>
    /\ spread_out[1].source = "signal"
    /\ spread_out[1].spread = spread_out[1].max_allowed_spread
    /\ spread_out[1].max_allowed_spread > 0
    /\ spread_out[1].blocked = "pass"


\* ------------------------------------ automatic calls that keep running
\* A call that has arrived runs on: the thread it is on is scheduled, and
\* the venue answers every request.
AutoProgress(a) ==
    \/ AutoTestLock(a)
    \/ AutoAcquire(a)
    \/ ExecGuards(a)
    \/ SendOrderStep(a)
    \/ ExecResult(a)
    \/ AutoRelease(a)

SpecAutoFair ==
    /\ InitAuto
    /\ [][NextAuto]_vars
    /\ \A a \in AutoCallers : WF_vars(AutoProgress(a))

\* C26: an automatic call that holds the lock gives it up, whatever the
\* outcome of its execution (executed, blocked, failed at the venue, or an
\* exception), and a call that is over does not hold it.
C26_LockReleased ==
    /\ [](\A a \in AutoCallers :
             AUTO_TRADE_LOCK = a => (InExecution(a) \/ exec[a].pc = "release"))
    /\ \A a \in AutoCallers : (AUTO_TRADE_LOCK = a) ~> (AUTO_TRADE_LOCK # a)

\* A call whose execution raised is over and the lock is free.
C26_Witness ==
    \E a \in AutoCallers :
        /\ exec[a].pc = "idle"
        /\ exec[a].note = "raised"
        /\ AUTO_TRADE_LOCK = NoHolder


\* C27: a ledger row that is marked executed stays in the ledger, marked
\* executed, through every later step.
C27_ExecutedMonotonic ==
    [][\A s \in Symbols :
          (df_signals[s].present /\ df_signals[s].executed)
             => (df_signals'[s].present /\ df_signals'[s].executed)]_vars


\* ------------- on_signals_loaded_processed: the refresh of the signals
\* Lines 2087-2124 in the order of the code: the setting, the connection, the
\* confidence threshold.
MaxAutoOrders == 2

\* An automatic path that does not read the auto_trade_enabled setting.
auto_path_always_enabled(auto_trade_enabled, confident) ==
    IF ~is_connected THEN "auto_not_connected"
    ELSE IF confident THEN "execute"
    ELSE "low_confidence"

auto_path(auto_trade_enabled, confident) ==
    IF ~auto_trade_enabled THEN "auto_disabled"
    ELSE IF ~is_connected THEN "auto_not_connected"
    ELSE IF confident THEN "execute"
    ELSE "low_confidence"

\* One run of the handler while the candle of the ledger's signal of symbol s
\* is the latest one: generate_signal_from_model (lines 1386-1500, connected
\* only) gives a signal with the time of that candle and executed = False;
\* the merge of lines 1589-1610 keeps the ledger's row or, when the new signal
\* has the higher confidence, the new one; line 1630 passes the new signal to
\* auto_execute_model_signal_if_conditions_met, which holds the lock around
\* execute_trade_from_signal_data; line 1637 saves the ledger. Of the checks
\* of the execution the interval is computed, the spread stands for the
\* others, and the venue accepts or rejects the order.
AutoRefresh(s) ==
    /\ is_connected
    /\ AUTO_TRADE_LOCK = NoHolder
    /\ \E generated_higher \in BOOLEAN, auto_trade_enabled \in BOOLEAN, confident \in BOOLEAN :
       \E interval \in IF auto_path(auto_trade_enabled, confident) = "execute"
                       THEN Intervals ELSE {0} :
       \E failing \in IF auto_path(auto_trade_enabled, confident) = "execute"
                      THEN {{}, {"spread_too_high"}} ELSE {{}} :
       \E venue \in IF /\ auto_path(auto_trade_enabled, confident) = "execute"
                       /\ WouldFail(TRUE, failing, s, interval) = {}
                    THEN {"rejected", "done"} ELSE {"none"} :
       \E order \in IF send_order_success(venue) THEN OrderTickets ELSE {0} :
          LET merged == IF df_signals[s].present /\ ~generated_higher THEN df_signals[s]
                        ELSE [present |-> TRUE, executed |-> FALSE, notes |-> NoNote]
              path == auto_path(auto_trade_enabled, confident)
              block == IF path = "execute" THEN FirstBlock(WouldFail(TRUE, failing, s, interval))
                       ELSE path
              passed == block = "pass"
              success == passed /\ send_order_success(venue) /\ order > 0
              note == IF ~passed THEN [kind |-> "blocked", why |-> block]
                      ELSE IF success THEN ExecutedNote
                      ELSE [kind |-> "failed",
                            why |-> IF send_order_success(venue) THEN "Unknown order send error"
                                    ELSE send_order_error(venue)[1]]
          IN  /\ df_signals' = update_signal_status([df_signals EXCEPT ![s] = merged],
                                                    s, success, note)
              /\ last_trade_time' = record_trade_time(s, success)
              /\ auto_orders' = [auto_orders EXCEPT ![s] =
                                    IF success /\ @ < MaxAutoOrders THEN @ + 1 ELSE @]
              /\ refresh' = [ran |-> TRUE, symbol |-> s,
                             auto_trade_enabled |-> auto_trade_enabled,
                             confident |-> confident, path |-> path,
                             order_sent |-> passed /\ OrderSendCalled(venue),
                             executed_before |-> merged.executed]
              /\ last_raw_error_message' = IF passed THEN send_order_error(venue)
                                           ELSE last_raw_error_message
              /\ last_order_send' = IF passed /\ OrderSendCalled(venue)
                                    THEN [by |-> "send_order", connected |-> connected]
                                    ELSE last_order_send
    /\ UNCHANGED <<login, retries, connected, last_failed_reason, thread, mt5_connect_thread,
                   exec, closer, positions, AUTO_TRADE_LOCK, lot_in, lot_out, time_in,
                   time_out, attempt, now, mergeVars, market, monitor, spreadVars>>

\* Time passes between two refreshes.
ClockTick ==
    /\ now < MaxClock
    /\ now' = now + 1
    /\ UNCHANGED <<managerVars, lot_in, lot_out, time_in, time_out, attempt, last_trade_time,
                   df_signals, mergeVars, sideVars>>

InitRefresh ==
    /\ InitQuiet
    /\ InitNoTime
    /\ InitNoExec
    /\ InitNoMerge
    /\ InitNoSide

\* The symbols a model signal is generated for: gold_symbol is set (lines
\* 1561-1564), bitcoin_symbol is empty (line 1567).
ModelSymbols == {MinOf(Symbols)}

NextRefresh ==
    \/ \E s \in ModelSymbols : AutoRefresh(s)
    \/ ClockTick

SpecRefresh == InitRefresh /\ [][NextRefresh]_vars

\* C28: for one signal, identified by its time and symbol, at most one
\* automatic order is executed, however often the signals are refreshed: a
\* refresh that finds the signal in the ledger marked executed places no
\* automatic order for it.
C28_OneAutoOrderPerSignal ==
    [][\A s \in Symbols :
          /\ auto_orders'[s] <= 1
          /\ (df_signals[s].present /\ df_signals[s].executed)
                => auto_orders'[s] = auto_orders[s]]_vars

\* C29: a refresh with the auto-trade setting off, or with a signal below the
\* confidence threshold, sends no order: the signal's row is left not
\* executed, with a note that names the setting or the confidence.
C29_NoAutoOrderWhenDisabledOrLow ==
    [][(refresh' # refresh
          /\ (~refresh'.auto_trade_enabled \/ ~refresh'.confident))
       => LET s == refresh'.symbol IN
          /\ ~refresh'.order_sent
          /\ last_order_send' = last_order_send
          /\ auto_orders' = auto_orders
          /\ last_trade_time' = last_trade_time
          /\ df_signals'[s].present
          /\ ~df_signals'[s].executed
          /\ df_signals'[s].notes.kind = "blocked"
          /\ df_signals'[s].notes.why \in {"auto_disabled", "low_confidence"}
          /\ ~refresh'.auto_trade_enabled => df_signals'[s].notes.why = "auto_disabled"]_vars

\* A refresh with the setting off followed one with a confident signal that
\* was executed.
C29_Witness ==
    /\ refresh.ran
    /\ ~refresh.auto_trade_enabled
    /\ refresh.confident
    /\ auto_orders[refresh.symbol] = 1
    /\ df_signals[refresh.symbol].notes.why = "auto_disabled"


\* C30: when close_all_trades has returned success, no position with the
\* magic number that was open at the call is still open (positions are only
\* ever removed here, by an accepted closing order); in particular a position
\* list that could not be fetched does not end in success.
C30_OkMeansAllClosed ==
    closer.result = "ok" => positions = {}


====
